---- MODULE Spec2Model ----
(***************************************************************************)
(* Model of the interrupt-driven I2C (TWI) driver for the ATmega 328P:     *)
(* I2CDriver.cpp / I2CDriver.hpp / I2CDriver_cfg.hpp.                      *)
(*                                                                         *)
(* The driver is built either as a master or as a slave (I2C_MODE); the    *)
(* variable mode fixes the build in the initial state.  The foreground     *)
(* entry points (initialisation, disable, sendTo, readFrom, the two        *)
(* callback setters) and the interrupt handler ISR(TWI_vect) are the       *)
(* actions.  The TWI controller and the peer on the bus are the            *)
(* environment: twi is the bus phase the controller is in, and the status  *)
(* code handed to the interrupt handler is either one the controller can   *)
(* report in that phase (LegalStatus) or, while strayLeft allows it, any   *)
(* other code of the build (a protocol violation).  Spec is the driver on  *)
(* a controller that reports only the codes of its phase; SpecStray also   *)
(* lets it report codes out of phase.                                      *)
(*                                                                         *)
(* trace is a history variable: the bus commands, register accesses,       *)
(* buffer stores and callback invocations of the transaction in progress,  *)
(* each interrupt marked by an "irq" event carrying its status code.       *)
(***************************************************************************)
EXTENDS Integers, Sequences, FiniteSets, TLC

----------------------------------------------------------------------------
(* Bounds of the model *)

\* largest length passed to sendTo / readFrom / setSlaveTransmitCallback,
\* and the size of the caller's (and the transmit provider's) array
MaxLen == 2

\* status codes outside the controller's phase that SpecStray lets happen
MaxStray == 1

\* data bytes a peer sends beyond the capacity of the slave buffer
MaxOverrun == 3

----------------------------------------------------------------------------
(* Program constants *)

\* I2CDriver_cfg.hpp: the capacity of slaveBuffer, set by the integrator
I2C_BUFFER_SIZE == 2

\* uint8_t arithmetic
Wrap8(x) == x % 256

\* tI2CStatus, master build
MASTER_START_TRANSMISSION_DONE_08 == 8
MASTER_REPEATED_START_TRANSMISSION_DONE_10 == 16
MASTER_ARBITRATION_LOST_38 == 56
MS_STARTBIT_TRANSMITTED_AND_ACK_RECEIVED_18 == 24
MS_STARTBIT_TRANSMITTED_AND_NO_ACK_RECEIVED_20 == 32
MS_DATA_TRANSMITTED_ACK_RECEIVED_28 == 40
MS_DATA_TRANSMITTED_NO_ACK_RECEIVED_30 == 48
MR_STARTBIT_TRANSMITED_AND_ACK_RECEIVED_40 == 64
MR_STARTBIT_TRANSMITTED_AND_NO_ACK_RECEIVED_48 == 72
MR_DATA_RECEIVED_ACK_RETURN_50 == 80
MR_DATA_RECEIVED_NO_ACK_RETURN_58 == 88

\* tI2CStatus, slave build
SR_START_TRANSMISSION_RECEIVED_60 == 96
SR_ARBITRATION_LOST_ACK_RETURN_68 == 104
SR_GENERAL_ADDRESS_RECEIVED_ACK_RETURN_70 == 112
SR_ARBITRATION_LOST_ADDRESS_RECEIVED_ACK_RETURN_78 == 120
SR_DATA_RECEIVED_ACK_RETURN_80 == 128
SR_DATA_RECEIVED_NO_ACK_RETURN_88 == 136
SR_GENERAL_DATA_RECEIVED_ACK_RETURN_90 == 144
SR_GENERAL_DATA_RECEIVED_NO_ACK_RETURN_98 == 152
SR_STOP_RECEIVED == 160
ST_START_TRANSMISSION_RECEIVED_A8 == 168
ST_ARBITRATION_LOST_ACK_RETURN_B0 == 176
ST_DATA_TRANSMIT_ACK_RECEIVED_B8 == 184
ST_DATA_TRANSMIT_NO_ACK_RECEIVED_C0 == 192
ST_LAST_DATA_TRANSMIT_ACK_RECEIVED_C8 == 200

\* tI2CStatus, both builds
COMMON_NO_INFO_F8 == 248
COMMON_BUS_EEOR_00 == 0

\* the status codes of the master build's switch
MasterStatus ==
  { MASTER_START_TRANSMISSION_DONE_08, MASTER_REPEATED_START_TRANSMISSION_DONE_10,
    MASTER_ARBITRATION_LOST_38,
    MS_STARTBIT_TRANSMITTED_AND_ACK_RECEIVED_18,
    MS_STARTBIT_TRANSMITTED_AND_NO_ACK_RECEIVED_20,
    MS_DATA_TRANSMITTED_ACK_RECEIVED_28, MS_DATA_TRANSMITTED_NO_ACK_RECEIVED_30,
    MR_STARTBIT_TRANSMITED_AND_ACK_RECEIVED_40,
    MR_STARTBIT_TRANSMITTED_AND_NO_ACK_RECEIVED_48,
    MR_DATA_RECEIVED_ACK_RETURN_50, MR_DATA_RECEIVED_NO_ACK_RETURN_58,
    COMMON_NO_INFO_F8, COMMON_BUS_EEOR_00 }

\* the status codes of the slave build's switch
SlaveStatus ==
  { SR_START_TRANSMISSION_RECEIVED_60, SR_ARBITRATION_LOST_ACK_RETURN_68,
    SR_GENERAL_ADDRESS_RECEIVED_ACK_RETURN_70,
    SR_ARBITRATION_LOST_ADDRESS_RECEIVED_ACK_RETURN_78,
    SR_DATA_RECEIVED_ACK_RETURN_80, SR_DATA_RECEIVED_NO_ACK_RETURN_88,
    SR_GENERAL_DATA_RECEIVED_ACK_RETURN_90,
    SR_GENERAL_DATA_RECEIVED_NO_ACK_RETURN_98, SR_STOP_RECEIVED,
    ST_START_TRANSMISSION_RECEIVED_A8, ST_ARBITRATION_LOST_ACK_RETURN_B0,
    ST_DATA_TRANSMIT_ACK_RECEIVED_B8, ST_DATA_TRANSMIT_NO_ACK_RECEIVED_C0,
    ST_LAST_DATA_TRANSMIT_ACK_RECEIVED_C8,
    COMMON_NO_INFO_F8, COMMON_BUS_EEOR_00 }

----------------------------------------------------------------------------
(* Inputs *)

\* data bytes on the bus and in the callers' buffers
Bytes == {170, 187}

\* 7-bit peer addresses passed by the caller
Addresses == {80, 127}

\* the contents a caller gives its array before sendTo
Buffers ==
  { [i \in 0 .. MaxLen - 1 |-> IF i % 2 = 0 THEN 170 ELSE 187],
    [i \in 0 .. MaxLen - 1 |-> IF i % 2 = 0 THEN 187 ELSE 170] }

\* registered callbacks; NULL is the value of an unset function pointer
Handlers == {"onReceiveA", "onReceiveB"}
Providers == {"provideA", "provideB"}

\* the array a transmit provider returns
ProviderBuffer(fn) ==
  [i \in 0 .. MaxLen - 1 |->
     IF fn = "provideA" THEN (IF i % 2 = 0 THEN 170 ELSE 187)
                        ELSE (IF i % 2 = 0 THEN 187 ELSE 170)]

----------------------------------------------------------------------------
VARIABLES
  mode,                 \* I2C_MODE of the build: "MASTER" or "SLAVE"
  driverState,          \* static tI2CDriverState driverState
  typeOfCommunication,  \* static tI2CTypeOfCommunication typeOfCommunication
  lastRequestStatus,    \* static volatile tI2CDriverError lastRequestStatus
  i2cAddress,           \* static uint8_t i2cAddress
  i2cBuffer,            \* static uint8_t *i2cBuffer: "NULL" or "userBuf"
  masterReceivedBuffer, \* static uint8_t *masterReceivedBuffer
  dataPointer,          \* static uint8_t dataPointer
  nbDataToSend,         \* static uint8_t nbDataToSend
  userBuf,              \* the caller's array, of MaxLen bytes
  slaveDataPointer,     \* static uint8_t slaveDataPointer
  slaveBuffer,          \* static uint8_t slaveBuffer[I2C_BUFFER_SIZE]
  slaveTransmitBuffer,  \* static uint8_t *slaveTransmitBuffer: "NULL" or a provider
  nbByteToTransmit,     \* static uint8_t nbByteToTransmit
  slaveTransmitCallBack,\* static uint8_t *(*slaveTransmitCallBack)(void)
  slaveReceiveCallBack, \* static void (*slaveReceiveCallBack)(uint8_t, uint8_t)
  twiEnabled,           \* TWEN and TWIE of TWCR
  twi,                  \* the bus phase the controller is in
  strayLeft,            \* out-of-phase status codes the controller may still report
  strayed,              \* this transaction has seen an out-of-phase status code
  corrupt,              \* this transaction has stored outside its array
  req,                  \* the arguments of the last accepted sendTo / readFrom
  lastCall,             \* "sendTo" / "readFrom" right after a call of it
  pc,                   \* where the foreground is inside sendTo / readFrom
  inForce,              \* the registrations the slave transaction began with
  trace                 \* events of the transaction in progress

ctx == << driverState, typeOfCommunication, lastRequestStatus, i2cAddress,
          i2cBuffer, masterReceivedBuffer, dataPointer, nbDataToSend >>

slv == << slaveDataPointer, slaveBuffer, slaveTransmitBuffer, nbByteToTransmit,
          slaveTransmitCallBack, slaveReceiveCallBack >>

vars == << mode, driverState, typeOfCommunication, lastRequestStatus, i2cAddress,
           i2cBuffer, masterReceivedBuffer, dataPointer, nbDataToSend, userBuf,
           slaveDataPointer, slaveBuffer, slaveTransmitBuffer, nbByteToTransmit,
           slaveTransmitCallBack, slaveReceiveCallBack, twiEnabled, twi,
           strayLeft, strayed, corrupt, req, lastCall, pc, inForce,
           trace >>

\* one recorded event: op names it, i is a buffer index, v a byte or a code
Ev(op, i, v) == [op |-> op, i |-> i, v |-> v]

NoReq == [fn |-> "none", address |-> 0, length |-> 0]

\* no slave transaction is in flight
NoneInForce == [handler |-> "NULL", provider |-> "NULL", length |-> 0]

\* the foreground is in neither sendTo nor readFrom
NotCalling == [fn |-> "none", at |-> 0, address |-> 0, length |-> 0,
               data |-> [i \in 0 .. MaxLen - 1 |-> 0]]

\* the statics are zero-initialised, the controller is in its reset state
Boot ==
  /\ mode \in {"MASTER", "SLAVE"}
  /\ driverState = "I2C_READY"
  /\ typeOfCommunication = "MASTER_SEND"
  /\ lastRequestStatus = "I2C_OK"
  /\ i2cAddress = 0
  /\ i2cBuffer = "NULL"
  /\ masterReceivedBuffer = "NULL"
  /\ dataPointer = 0
  /\ nbDataToSend = 0
  /\ userBuf = [i \in 0 .. MaxLen - 1 |-> 0]
  /\ slaveDataPointer = 0
  /\ slaveBuffer = [i \in 0 .. I2C_BUFFER_SIZE - 1 |-> 0]
  /\ slaveTransmitBuffer = "NULL"
  /\ nbByteToTransmit = 0
  /\ slaveTransmitCallBack = "NULL"
  /\ slaveReceiveCallBack = "NULL"
  /\ twiEnabled = FALSE
  /\ twi = "idle"
  /\ strayed = FALSE
  /\ corrupt = FALSE
  /\ req = NoReq
  /\ lastCall = "other"
  /\ pc = NotCalling
  /\ inForce = NoneInForce
  /\ trace = << >>

Init == Boot /\ strayLeft = 0

InitStray == Boot /\ strayLeft = MaxStray

----------------------------------------------------------------------------
(* Driver facade *)

\* I2CDriver::initialisation: state ready, controller enabled (ENABLE_I2C)
Initialisation ==
  /\ pc.fn = "none"
  /\ driverState' = "I2C_READY"
  /\ twiEnabled' = TRUE
  /\ lastCall' = "other"
  /\ UNCHANGED << mode, typeOfCommunication, lastRequestStatus, i2cAddress,
                  i2cBuffer, masterReceivedBuffer, dataPointer, nbDataToSend,
                  userBuf, slv, twi, strayLeft, strayed, corrupt, req, pc,
                  inForce, trace >>

\* mutation of Disable: the state is set back to ready
Disable_Reset ==
  /\ pc.fn = "none"
  /\ twiEnabled' = FALSE
  /\ twi' = "idle"
  /\ lastCall' = "other"
  /\ trace' = << >>
  /\ strayed' = FALSE
  /\ corrupt' = FALSE
  /\ inForce' = NoneInForce
  /\ driverState' = "I2C_READY"
  /\ UNCHANGED << mode, typeOfCommunication, lastRequestStatus, i2cAddress,
                  i2cBuffer, masterReceivedBuffer, dataPointer, nbDataToSend,
                  userBuf, slv, strayLeft, req, pc >>

\* I2CDriver::disable: TWEN, TWIE and TWEA cleared; the controller leaves the
\* bus, which ends the transaction on the bus and its record; the driver's
\* statics are not touched
Disable ==
  /\ pc.fn = "none"
  /\ twiEnabled' = FALSE
  /\ twi' = "idle"
  /\ lastCall' = "other"
  /\ trace' = << >>
  /\ strayed' = FALSE
  /\ corrupt' = FALSE
  /\ inForce' = NoneInForce
  /\ UNCHANGED << mode, ctx, userBuf, slv, strayLeft, req, pc >>

\* SEND_START_CONDITION: TWINT, TWEA, TWEN, TWIE and TWSTA written to TWCR.
\* The start is a repeated start when the controller still holds the bus
SendStartCondition(fn, address, length) ==
  /\ twiEnabled' = TRUE
  /\ twi' = IF twi = "idle" THEN "start" ELSE "restart"
  /\ strayed' = FALSE
  /\ corrupt' = FALSE
  /\ req' = [fn |-> fn, address |-> address, length |-> length]
  /\ trace' = << Ev("start", 0, 0) >>

\* mutation of Accepted: the call is taken even while a transaction is in flight
Accepted_Always == TRUE

\* if (driverState == I2C_READY), the test of sendTo and of readFrom
Accepted == driverState = "I2C_READY"

\* mutation of SendAddress: the read bit is set
SendAddress_ReadBit(address) == Wrap8((address * 2) + 1)

\* i2cAddress = address << 1
SendAddress(address) == Wrap8(address * 2)

\* i2cAddress = (address << 1) + 1
ReadAddress(address) == Wrap8((address * 2) + 1)

\* I2CDriver::sendTo(address, data, length)
SendTo(address, data, length) ==
  /\ mode = "MASTER"
  /\ pc.fn = "none"
  /\ lastCall' = "sendTo"
  /\ IF Accepted
       THEN /\ typeOfCommunication' = "MASTER_SEND"
            /\ driverState' = "I2C_MASTER_TRANSMIT"
            /\ dataPointer' = 0
            /\ nbDataToSend' = length
            /\ i2cAddress' = SendAddress(address)
            /\ i2cBuffer' = "userBuf"
            /\ userBuf' = data
            /\ SendStartCondition("sendTo", address, length)
            /\ UNCHANGED << lastRequestStatus, masterReceivedBuffer >>
       ELSE UNCHANGED << ctx, userBuf, twiEnabled, twi, strayed, corrupt, req,
                         trace >>
  /\ UNCHANGED << mode, slv, strayLeft, pc, inForce >>

\* I2CDriver::readFrom(address, data, length); the caller passes its array
\* cleared
ReadFrom(address, length) ==
  /\ mode = "MASTER"
  /\ pc.fn = "none"
  /\ lastCall' = "readFrom"
  /\ IF Accepted
       THEN /\ typeOfCommunication' = "MASTER_RECEIVED"
            /\ driverState' = "I2C_MASTER_TRANSMIT"
            /\ dataPointer' = 0
            /\ nbDataToSend' = length
            /\ masterReceivedBuffer' = "userBuf"
            /\ i2cAddress' = ReadAddress(address)
            /\ i2cBuffer' = "userBuf"
            /\ userBuf' = [i \in 0 .. MaxLen - 1 |-> 0]
            /\ SendStartCondition("readFrom", address, length)
            /\ UNCHANGED lastRequestStatus
       ELSE UNCHANGED << ctx, userBuf, twiEnabled, twi, strayed, corrupt, req,
                         trace >>
  /\ UNCHANGED << mode, slv, strayLeft, pc, inForce >>

\* I2CDriver::setSlaveReceivedCallback(callBackFunction)
SetSlaveReceivedCallback(fn) ==
  /\ mode = "SLAVE"
  /\ pc.fn = "none"
  /\ slaveReceiveCallBack' = fn
  /\ lastCall' = "other"
  /\ UNCHANGED << mode, ctx, userBuf, slaveDataPointer, slaveBuffer,
                  slaveTransmitBuffer, nbByteToTransmit, slaveTransmitCallBack,
                  twiEnabled, twi, strayLeft, strayed, corrupt, req, pc, inForce,
                  trace >>

\* I2CDriver::setSlaveTransmitCallback(callBackFunction, size)
SetSlaveTransmitCallback(fn, size) ==
  /\ mode = "SLAVE"
  /\ pc.fn = "none"
  /\ slaveTransmitCallBack' = fn
  /\ nbByteToTransmit' = size
  /\ lastCall' = "other"
  /\ UNCHANGED << mode, ctx, userBuf, slaveDataPointer, slaveBuffer,
                  slaveTransmitBuffer, slaveReceiveCallBack,
                  twiEnabled, twi, strayLeft, strayed, corrupt, req, pc, inForce,
                  trace >>

----------------------------------------------------------------------------
(* sendTo and readFrom, statement by statement *)

\* Neither function masks the TWI interrupt: the handler can run between any
\* two of their statements.  pc.at counts the statements of the body of the
\* if that have been executed; the lines of I2CDriver.cpp they stand on are
SendToLines == << 180, 181, 184, 185, 188, 189, 192 >>
ReadFromLines == << 212, 213, 216, 217, 218, 221, 222, 225 >>

\* the line the foreground is about to execute
PcLine ==
  IF pc.fn = "sendTo" THEN SendToLines[pc.at + 1]
  ELSE IF pc.fn = "readFrom" THEN ReadFromLines[pc.at + 1]
  ELSE 0

\* what one statement leaves alone besides the statics
StepFrame ==
  /\ pc' = IF PcLine \in {192, 225} THEN NotCalling ELSE [pc EXCEPT !.at = @ + 1]
  /\ UNCHANGED << mode, lastRequestStatus, slv, strayLeft, lastCall, inForce >>

\* I2CDriver::sendTo, line 179: the test of the state; a call that is not
\* accepted returns at once
SendToCall(address, data, length) ==
  /\ mode = "MASTER"
  /\ pc.fn = "none"
  /\ lastCall' = "sendTo"
  /\ pc' = IF Accepted
             THEN [fn |-> "sendTo", at |-> 0, address |-> address,
                   length |-> length, data |-> data]
             ELSE pc
  /\ UNCHANGED << mode, ctx, userBuf, slv, twiEnabled, twi, strayLeft, strayed,
                  corrupt, req, inForce, trace >>

\* I2CDriver::sendTo, lines 180 to 192, one statement at a time
SendToStep ==
  /\ pc.fn = "sendTo"
  /\ typeOfCommunication' = IF PcLine = 180 THEN "MASTER_SEND"
                                            ELSE typeOfCommunication
  /\ driverState' = IF PcLine = 181 THEN "I2C_MASTER_TRANSMIT" ELSE driverState
  /\ dataPointer' = IF PcLine = 184 THEN 0 ELSE dataPointer
  /\ nbDataToSend' = IF PcLine = 185 THEN pc.length ELSE nbDataToSend
  /\ i2cAddress' = IF PcLine = 188 THEN SendAddress(pc.address) ELSE i2cAddress
  /\ i2cBuffer' = IF PcLine = 189 THEN "userBuf" ELSE i2cBuffer
  /\ userBuf' = IF PcLine = 189 THEN pc.data ELSE userBuf
  /\ IF PcLine = 192
       THEN SendStartCondition("sendTo", pc.address, pc.length)
       ELSE UNCHANGED << twiEnabled, twi, strayed, corrupt, req, trace >>
  /\ UNCHANGED masterReceivedBuffer
  /\ StepFrame

\* I2CDriver::readFrom, line 209
ReadFromCall(address, length) ==
  /\ mode = "MASTER"
  /\ pc.fn = "none"
  /\ lastCall' = "readFrom"
  /\ pc' = IF Accepted
             THEN [fn |-> "readFrom", at |-> 0, address |-> address,
                   length |-> length, data |-> [i \in 0 .. MaxLen - 1 |-> 0]]
             ELSE pc
  /\ UNCHANGED << mode, ctx, userBuf, slv, twiEnabled, twi, strayLeft, strayed,
                  corrupt, req, inForce, trace >>

\* I2CDriver::readFrom, lines 212 to 225, one statement at a time
ReadFromStep ==
  /\ pc.fn = "readFrom"
  /\ typeOfCommunication' = IF PcLine = 212 THEN "MASTER_RECEIVED"
                                            ELSE typeOfCommunication
  /\ driverState' = IF PcLine = 213 THEN "I2C_MASTER_TRANSMIT" ELSE driverState
  /\ dataPointer' = IF PcLine = 216 THEN 0 ELSE dataPointer
  /\ nbDataToSend' = IF PcLine = 217 THEN pc.length ELSE nbDataToSend
  /\ masterReceivedBuffer' = IF PcLine = 218 THEN "userBuf"
                                             ELSE masterReceivedBuffer
  /\ userBuf' = IF PcLine = 218 THEN pc.data ELSE userBuf
  /\ i2cAddress' = IF PcLine = 221 THEN ReadAddress(pc.address) ELSE i2cAddress
  /\ i2cBuffer' = IF PcLine = 222 THEN "userBuf" ELSE i2cBuffer
  /\ IF PcLine = 225
       THEN SendStartCondition("readFrom", pc.address, pc.length)
       ELSE UNCHANGED << twiEnabled, twi, strayed, corrupt, req, trace >>
  /\ StepFrame

----------------------------------------------------------------------------
(* The controller and the peer *)

\* the status codes the controller can report in its current bus phase.
\* initialisation() writes I2C_ADDRESS << 1 to TWAR, which leaves the
\* general-call bit clear: a listening controller answers its own address only
LegalStatus ==
  CASE twi = "start"  -> { MASTER_START_TRANSMISSION_DONE_08, COMMON_BUS_EEOR_00 }
    [] twi = "restart" -> { MASTER_REPEATED_START_TRANSMISSION_DONE_10,
                            COMMON_BUS_EEOR_00 }
    [] twi = "addrW"  -> { MS_STARTBIT_TRANSMITTED_AND_ACK_RECEIVED_18,
                           MS_STARTBIT_TRANSMITTED_AND_NO_ACK_RECEIVED_20,
                           MASTER_ARBITRATION_LOST_38, COMMON_BUS_EEOR_00 }
    [] twi = "dataW"  -> { MS_DATA_TRANSMITTED_ACK_RECEIVED_28,
                           MS_DATA_TRANSMITTED_NO_ACK_RECEIVED_30,
                           MASTER_ARBITRATION_LOST_38, COMMON_BUS_EEOR_00 }
    [] twi = "addrR"  -> { MR_STARTBIT_TRANSMITED_AND_ACK_RECEIVED_40,
                           MR_STARTBIT_TRANSMITTED_AND_NO_ACK_RECEIVED_48,
                           MASTER_ARBITRATION_LOST_38, COMMON_BUS_EEOR_00 }
    [] twi = "rxAck"  -> { MR_DATA_RECEIVED_ACK_RETURN_50, COMMON_BUS_EEOR_00 }
    [] twi = "rxNack" -> { MR_DATA_RECEIVED_NO_ACK_RETURN_58,
                           MASTER_ARBITRATION_LOST_38, COMMON_BUS_EEOR_00 }
    [] twi = "srAck"  -> { SR_DATA_RECEIVED_ACK_RETURN_80,
                           SR_STOP_RECEIVED, COMMON_BUS_EEOR_00 }
    [] twi = "srAckG" -> { SR_GENERAL_DATA_RECEIVED_ACK_RETURN_90,
                           SR_STOP_RECEIVED, COMMON_BUS_EEOR_00 }
    [] twi = "stAck"  -> { ST_DATA_TRANSMIT_ACK_RECEIVED_B8,
                           ST_DATA_TRANSMIT_NO_ACK_RECEIVED_C0, COMMON_BUS_EEOR_00 }
    [] twi = "stLast" -> { ST_DATA_TRANSMIT_NO_ACK_RECEIVED_C0,
                           ST_LAST_DATA_TRANSMIT_ACK_RECEIVED_C8,
                           COMMON_BUS_EEOR_00 }
    [] OTHER          -> IF mode = "SLAVE"
                           THEN { SR_START_TRANSMISSION_RECEIVED_60,
                                  ST_START_TRANSMISSION_RECEIVED_A8 }
                           ELSE {}

\* the interrupt is raised with status s: the controller is enabled, and s is
\* a code of the phase or an out-of-phase code the environment still allows.
\* Once driver and controller are out of step the phase says nothing about
\* the next code: the transaction is followed no further
Raised(s) ==
  /\ twiEnabled
  /\ \/ s \in LegalStatus /\ ~strayed
     \/ s \notin LegalStatus /\ strayLeft > 0

\* what every run of the handler records; a slave transaction begins when
\* the listening controller is addressed
Entered(s) ==
  /\ lastCall' = "other"
  /\ strayLeft' = IF s \in LegalStatus THEN strayLeft ELSE strayLeft - 1
  /\ strayed' = IF s \in LegalStatus THEN (twi # "idle" /\ strayed) ELSE TRUE

\* the byte the controller holds in TWDR when the handler reads it: the
\* bytes of a message alternate; a slave peer sends either byte first, a
\* master peer sends 0xAA first
LastStore ==
  LET S == { k \in 1 .. Len(trace) : trace[k].op = "store" }
  IN  IF S = {} THEN 0 ELSE trace[CHOOSE k \in S : \A j \in S : j <= k].v

Received ==
  IF LastStore # 0 THEN Bytes \ {LastStore}
  ELSE IF mode = "MASTER" THEN Bytes ELSE {170}

\* the events of this run appended to the record of the transaction
Run(s, events) == trace' = (trace \o << Ev("irq", 0, s) >>) \o events

\* the events of a run that begins a slave transaction
Begin(s, events) == trace' = << Ev("irq", 0, s) >> \o events

----------------------------------------------------------------------------
(* ISR(TWI_vect), master build *)

\* the bus commands the handler writes to TWCR
SEND_STOP_CONDITION == Ev("stop", 0, 0)
REQUEST_SEND_WITH_ACK == Ev("contAck", 0, 0)
REQUEST_SEND_WITHOUT_ACK == Ev("contNack", 0, 0)
RELEASE_BUS == Ev("release", 0, 0)

\* mutation of MasterStore: the byte goes one element too far
MasterStore_Shifted(idx, byte, victim) ==
  /\ userBuf' = IF idx + 1 < MaxLen THEN [userBuf EXCEPT ![idx + 1] = byte]
                                    ELSE userBuf
  /\ corrupt' = (corrupt \/ idx + 1 >= MaxLen)
  /\ UNCHANGED nbDataToSend

\* masterReceivedBuffer[idx] = byte.  A store outside the caller's array (or
\* through a null pointer) lands elsewhere in memory: it is either invisible
\* to the driver or overwrites the length byte, depending on the memory layout
MasterStore(idx, byte, victim) ==
  LET inArray == masterReceivedBuffer = "userBuf" /\ idx < MaxLen
  IN  /\ userBuf' = IF inArray THEN [userBuf EXCEPT ![idx] = byte] ELSE userBuf
      /\ corrupt' = (corrupt \/ ~inArray)
      /\ nbDataToSend' = IF ~inArray /\ victim = "length" THEN byte
                                                          ELSE nbDataToSend

\* i2cBuffer[idx]; a read outside the array yields whatever byte lies there
MasterLoad(idx, wild) ==
  IF i2cBuffer = "userBuf" /\ idx < MaxLen THEN userBuf[idx] ELSE wild

\* the look-ahead of the receive path: dataPointer < nbDataToSend - 1, in int
MoreThanOneLeft(ptr, len) == ptr < len - 1

\* mutation of MoreToSend: one byte too many
MoreToSend_OneMore(ptr, len) == ptr <= len

\* the test of the send path: dataPointer < nbDataToSend
MoreToSend(ptr, len) == ptr < len

\* case MASTER_START_TRANSMISSION_DONE_08, MASTER_REPEATED_START_TRANSMISSION_DONE_10
IsrStart(s) ==
  /\ s \in { MASTER_START_TRANSMISSION_DONE_08,
             MASTER_REPEATED_START_TRANSMISSION_DONE_10 }
  /\ Run(s, << Ev("wrAddr", 0, i2cAddress), REQUEST_SEND_WITH_ACK >>)
  /\ twi' = IF i2cAddress % 2 = 1 THEN "addrR" ELSE "addrW"
  /\ UNCHANGED << ctx, userBuf, corrupt >>

\* case MS_STARTBIT_TRANSMITTED_AND_ACK_RECEIVED_18, MS_DATA_TRANSMITTED_ACK_RECEIVED_28
IsrSendAck(s, wild) ==
  /\ s \in { MS_STARTBIT_TRANSMITTED_AND_ACK_RECEIVED_18,
             MS_DATA_TRANSMITTED_ACK_RECEIVED_28 }
  /\ MoreToSend(dataPointer, nbDataToSend) => dataPointer <= MaxLen
  /\ IF MoreToSend(dataPointer, nbDataToSend)
       THEN /\ dataPointer' = Wrap8(dataPointer + 1)
            /\ Run(s, << Ev("wrData", dataPointer, MasterLoad(dataPointer, wild)),
                         REQUEST_SEND_WITH_ACK >>)
            /\ twi' = "dataW"
            /\ UNCHANGED driverState
       ELSE /\ Run(s, << SEND_STOP_CONDITION >>)
            /\ driverState' = "I2C_READY"
            /\ twi' = "idle"
            /\ UNCHANGED dataPointer
  /\ UNCHANGED << typeOfCommunication, lastRequestStatus, i2cAddress, i2cBuffer,
                  masterReceivedBuffer, nbDataToSend, userBuf, corrupt >>

\* mutation of IsrSendNack: the state is left as it was
IsrSendNack_StateKept(s) ==
  /\ s \in { MS_STARTBIT_TRANSMITTED_AND_NO_ACK_RECEIVED_20,
             MS_DATA_TRANSMITTED_NO_ACK_RECEIVED_30 }
  /\ lastRequestStatus' = "I2C_MISSING_ACK"
  /\ Run(s, << SEND_STOP_CONDITION >>)
  /\ twi' = "idle"
  /\ UNCHANGED << driverState, typeOfCommunication, i2cAddress, i2cBuffer,
                  masterReceivedBuffer, dataPointer, nbDataToSend, userBuf,
                  corrupt >>

\* case MS_STARTBIT_TRANSMITTED_AND_NO_ACK_RECEIVED_20, and
\* case MS_DATA_TRANSMITTED_NO_ACK_RECEIVED_30
IsrSendNack(s) ==
  /\ s \in { MS_STARTBIT_TRANSMITTED_AND_NO_ACK_RECEIVED_20,
             MS_DATA_TRANSMITTED_NO_ACK_RECEIVED_30 }
  /\ lastRequestStatus' = "I2C_MISSING_ACK"
  /\ Run(s, << SEND_STOP_CONDITION >>)
  /\ driverState' = "I2C_READY"
  /\ twi' = "idle"
  /\ UNCHANGED << typeOfCommunication, i2cAddress, i2cBuffer, masterReceivedBuffer,
                  dataPointer, nbDataToSend, userBuf, corrupt >>

\* case MR_STARTBIT_TRANSMITED_AND_ACK_RECEIVED_40
IsrRecvAddrAck(s) ==
  /\ s = MR_STARTBIT_TRANSMITED_AND_ACK_RECEIVED_40
  /\ IF MoreThanOneLeft(dataPointer, nbDataToSend)
       THEN Run(s, << REQUEST_SEND_WITH_ACK >>) /\ twi' = "rxAck"
       ELSE Run(s, << REQUEST_SEND_WITHOUT_ACK >>) /\ twi' = "rxNack"
  /\ UNCHANGED << ctx, userBuf, corrupt >>

\* case MR_DATA_RECEIVED_ACK_RETURN_50
IsrRecvData(s, rx, victim) ==
  /\ s = MR_DATA_RECEIVED_ACK_RETURN_50
  /\ dataPointer <= MaxLen
  /\ MasterStore(dataPointer, rx, victim)
  /\ dataPointer' = Wrap8(dataPointer + 1)
  /\ IF MoreThanOneLeft(dataPointer', nbDataToSend')
       THEN /\ Run(s, << Ev("store", dataPointer, rx), REQUEST_SEND_WITH_ACK >>)
            /\ twi' = "rxAck"
       ELSE /\ Run(s, << Ev("store", dataPointer, rx), REQUEST_SEND_WITHOUT_ACK >>)
            /\ twi' = "rxNack"
  /\ UNCHANGED << driverState, typeOfCommunication, lastRequestStatus, i2cAddress,
                  i2cBuffer, masterReceivedBuffer >>

\* case MR_DATA_RECEIVED_NO_ACK_RETURN_58
IsrRecvLast(s, rx, victim) ==
  /\ s = MR_DATA_RECEIVED_NO_ACK_RETURN_58
  /\ dataPointer <= MaxLen
  /\ MasterStore(dataPointer, rx, victim)
  /\ dataPointer' = Wrap8(dataPointer + 1)
  /\ Run(s, << Ev("store", dataPointer, rx), SEND_STOP_CONDITION >>)
  /\ driverState' = "I2C_READY"
  /\ twi' = "idle"
  /\ UNCHANGED << typeOfCommunication, lastRequestStatus, i2cAddress, i2cBuffer,
                  masterReceivedBuffer >>

\* mutation of IsrRecvAddrNack: the missing acknowledge is recorded, as on the
\* send path
IsrRecvAddrNack_Recorded(s) ==
  /\ s = MR_STARTBIT_TRANSMITTED_AND_NO_ACK_RECEIVED_48
  /\ lastRequestStatus' = "I2C_MISSING_ACK"
  /\ Run(s, << SEND_STOP_CONDITION >>)
  /\ driverState' = "I2C_READY"
  /\ twi' = "idle"
  /\ UNCHANGED << typeOfCommunication, i2cAddress, i2cBuffer, masterReceivedBuffer,
                  dataPointer, nbDataToSend, userBuf, corrupt >>

\* case MR_STARTBIT_TRANSMITTED_AND_NO_ACK_RECEIVED_48
IsrRecvAddrNack(s) ==
  /\ s = MR_STARTBIT_TRANSMITTED_AND_NO_ACK_RECEIVED_48
  /\ Run(s, << SEND_STOP_CONDITION >>)
  /\ driverState' = "I2C_READY"
  /\ twi' = "idle"
  /\ UNCHANGED << typeOfCommunication, lastRequestStatus, i2cAddress, i2cBuffer,
                  masterReceivedBuffer, dataPointer, nbDataToSend, userBuf, corrupt >>

\* mutation of twi_releaseBus: the bus is given up with a stop condition
twi_releaseBus_Stop(s, before) ==
  /\ Run(s, before \o << SEND_STOP_CONDITION >>)
  /\ driverState' = "I2C_READY"
  /\ twi' = "idle"

\* twi_releaseBus: TWCR written without TWSTA and TWSTO, state ready
twi_releaseBus(s, before) ==
  /\ Run(s, before \o << RELEASE_BUS >>)
  /\ driverState' = "I2C_READY"
  /\ twi' = "idle"

\* case MASTER_ARBITRATION_LOST_38
IsrArbitrationLost(s) ==
  /\ s = MASTER_ARBITRATION_LOST_38
  /\ lastRequestStatus' = "I2C_LOST_ARBITRATION"
  /\ twi_releaseBus(s, << >>)
  /\ UNCHANGED << typeOfCommunication, i2cAddress, i2cBuffer, masterReceivedBuffer,
                  dataPointer, nbDataToSend, userBuf, corrupt >>

\* mutation of IsrNoInfo: a stop condition is issued
IsrNoInfo_Stop(s) ==
  /\ s = COMMON_NO_INFO_F8
  /\ Run(s, << SEND_STOP_CONDITION >>)
  /\ driverState' = "I2C_READY"
  /\ UNCHANGED << typeOfCommunication, lastRequestStatus, i2cAddress, i2cBuffer,
                  masterReceivedBuffer, dataPointer, nbDataToSend, userBuf, slv,
                  twi, corrupt >>

\* case COMMON_NO_INFO_F8 (both builds): no command is written to the controller
IsrNoInfo(s) ==
  /\ s = COMMON_NO_INFO_F8
  /\ Run(s, << >>)
  /\ driverState' = "I2C_READY"
  /\ UNCHANGED << typeOfCommunication, lastRequestStatus, i2cAddress, i2cBuffer,
                  masterReceivedBuffer, dataPointer, nbDataToSend, userBuf, slv,
                  twi, corrupt >>

\* mutation of IsrBusError: the state is left as it was
IsrBusError_StateKept(s) ==
  /\ s = COMMON_BUS_EEOR_00
  /\ lastRequestStatus' = "I2C_BUS_ERROR"
  /\ Run(s, << SEND_STOP_CONDITION >>)
  /\ twi' = "idle"
  /\ UNCHANGED << driverState, typeOfCommunication, i2cAddress, i2cBuffer,
                  masterReceivedBuffer, dataPointer, nbDataToSend, userBuf, slv,
                  corrupt >>

\* case COMMON_BUS_EEOR_00 (both builds)
IsrBusError(s) ==
  /\ s = COMMON_BUS_EEOR_00
  /\ lastRequestStatus' = "I2C_BUS_ERROR"
  /\ Run(s, << SEND_STOP_CONDITION >>)
  /\ driverState' = "I2C_READY"
  /\ twi' = "idle"
  /\ UNCHANGED << typeOfCommunication, i2cAddress, i2cBuffer, masterReceivedBuffer,
                  dataPointer, nbDataToSend, userBuf, slv, corrupt >>

\* the switch of the master build
IsrMaster(s) ==
  /\ mode = "MASTER"
  /\ s \in MasterStatus
  /\ Raised(s)
  /\ Entered(s)
  /\ \/ IsrStart(s)
     \/ \E wild \in Bytes : IsrSendAck(s, wild)
     \/ IsrSendNack(s)
     \/ IsrRecvAddrAck(s)
     \/ \E rx \in Received, victim \in {"none", "length"} :
           IsrRecvData(s, rx, victim)
     \/ \E rx \in Received, victim \in {"none", "length"} :
           IsrRecvLast(s, rx, victim)
     \/ IsrRecvAddrNack(s)
     \/ IsrArbitrationLost(s)
     \/ IsrNoInfo(s)
     \/ IsrBusError(s)
  /\ UNCHANGED << mode, twiEnabled, req, pc, inForce >>
  /\ IF mode = "MASTER" THEN UNCHANGED slv ELSE TRUE

----------------------------------------------------------------------------
(* ISR(TWI_vect), slave build *)

\* slaveBuffer[idx] = byte.  slaveBuffer has I2C_BUFFER_SIZE elements and the
\* handler does not compare the index with it: a store at or beyond the end
\* lands in the statics that follow, invisibly to the driver or on
\* nbByteToTransmit, depending on the memory layout
SlaveStore(idx, byte, victim) ==
  LET inArray == idx < I2C_BUFFER_SIZE
  IN  /\ slaveBuffer' = IF inArray THEN [slaveBuffer EXCEPT ![idx] = byte]
                                   ELSE slaveBuffer
      /\ corrupt' = (corrupt \/ ~inArray)
      /\ nbByteToTransmit' = IF ~inArray /\ victim = "length" THEN byte
                                                              ELSE nbByteToTransmit

\* buf[idx] of the array the transmit provider returned
SlaveLoad(buf, idx, wild) ==
  IF buf \in Providers /\ idx < MaxLen THEN ProviderBuffer(buf)[idx] ELSE wild

\* a call through a null function pointer jumps to address 0, the reset
\* vector: the program starts again with its statics cleared and the
\* controller not yet initialised
Restart ==
  /\ driverState' = "I2C_READY"
  /\ typeOfCommunication' = "MASTER_SEND"
  /\ lastRequestStatus' = "I2C_OK"
  /\ slaveDataPointer' = 0
  /\ slaveBuffer' = [i \in 0 .. I2C_BUFFER_SIZE - 1 |-> 0]
  /\ slaveTransmitBuffer' = "NULL"
  /\ nbByteToTransmit' = 0
  /\ slaveTransmitCallBack' = "NULL"
  /\ slaveReceiveCallBack' = "NULL"
  /\ twiEnabled' = FALSE
  /\ twi' = "idle"
  /\ corrupt' = FALSE
  /\ trace' = << >>

\* case SR_START_TRANSMISSION_RECEIVED_60 ... SR_ARBITRATION_LOST_ADDRESS_RECEIVED_ACK_RETURN_78
IsrSlaveAddressedWrite(s) ==
  /\ s \in { SR_START_TRANSMISSION_RECEIVED_60, SR_ARBITRATION_LOST_ACK_RETURN_68,
             SR_GENERAL_ADDRESS_RECEIVED_ACK_RETURN_70,
             SR_ARBITRATION_LOST_ADDRESS_RECEIVED_ACK_RETURN_78 }
  /\ typeOfCommunication' = "SLAVE_RECEIVED"
  /\ driverState' = "I2C_SLAVE_RECEIVE"
  /\ slaveDataPointer' = 0
  /\ Begin(s, << REQUEST_SEND_WITH_ACK >>)
  /\ twi' = IF s \in { SR_START_TRANSMISSION_RECEIVED_60,
                        SR_ARBITRATION_LOST_ACK_RETURN_68 } THEN "srAck"
                                                            ELSE "srAckG"
  /\ corrupt' = FALSE
  /\ UNCHANGED << lastRequestStatus, slaveBuffer, slaveTransmitBuffer,
                  nbByteToTransmit, slaveTransmitCallBack, slaveReceiveCallBack,
                  twiEnabled >>

\* case SR_DATA_RECEIVED_ACK_RETURN_80, SR_GENERAL_DATA_RECEIVED_ACK_RETURN_90
IsrSlaveData(s, rx, victim) ==
  /\ s \in { SR_DATA_RECEIVED_ACK_RETURN_80, SR_GENERAL_DATA_RECEIVED_ACK_RETURN_90 }
  /\ slaveDataPointer < I2C_BUFFER_SIZE + MaxOverrun
  /\ SlaveStore(slaveDataPointer, rx, victim)
  /\ slaveDataPointer' = Wrap8(slaveDataPointer + 1)
  /\ Run(s, << Ev("store", slaveDataPointer, rx), REQUEST_SEND_WITH_ACK >>)
  /\ twi' = IF s = SR_DATA_RECEIVED_ACK_RETURN_80 THEN "srAck" ELSE "srAckG"
  /\ UNCHANGED << driverState, typeOfCommunication, lastRequestStatus,
                  slaveTransmitBuffer, slaveTransmitCallBack, slaveReceiveCallBack,
                  twiEnabled >>

\* case SR_DATA_RECEIVED_NO_ACK_RETURN_88, SR_GENERAL_DATA_RECEIVED_NO_ACK_RETURN_98
IsrSlaveDataNack(s, rx, victim) ==
  /\ s \in { SR_DATA_RECEIVED_NO_ACK_RETURN_88,
             SR_GENERAL_DATA_RECEIVED_NO_ACK_RETURN_98 }
  /\ slaveDataPointer < I2C_BUFFER_SIZE + MaxOverrun
  /\ SlaveStore(slaveDataPointer, rx, victim)
  /\ slaveDataPointer' = Wrap8(slaveDataPointer + 1)
  /\ Run(s, << Ev("store", slaveDataPointer, rx), REQUEST_SEND_WITHOUT_ACK >>)
  /\ twi' = "idle"
  /\ UNCHANGED << driverState, typeOfCommunication, lastRequestStatus,
                  slaveTransmitBuffer, slaveTransmitCallBack, slaveReceiveCallBack,
                  twiEnabled >>

\* case SR_STOP_RECEIVED.  slaveReceiveCallBack is declared with a first
\* parameter of type uint8_t, not uint8_t *: the call passes the low byte of
\* the address of slaveBuffer, and the registered handler, which takes a
\* pointer, reads the other byte from a register the call did not set.
\* intact tells whether the handler ends up with the address of slaveBuffer
IsrSlaveStop(s, intact) ==
  /\ s = SR_STOP_RECEIVED
  /\ IF slaveReceiveCallBack = "NULL"
       THEN Restart
       ELSE /\ twi_releaseBus(s, << Ev("rxCall", slaveDataPointer,
                                       IF intact THEN 1 ELSE 0) >>)
            /\ twiEnabled' = TRUE
            /\ UNCHANGED << typeOfCommunication, lastRequestStatus,
                            slaveDataPointer, slaveBuffer, slaveTransmitBuffer,
                            nbByteToTransmit, slaveTransmitCallBack,
                            slaveReceiveCallBack, corrupt >>

\* the tail of both transmit cases: the next byte and the look-ahead
SlaveTransmitByte(buf, ptr, wild) ==
  /\ slaveDataPointer' = Wrap8(ptr + 1)
  /\ twi' = IF Wrap8(ptr + 1) < nbByteToTransmit THEN "stAck" ELSE "stLast"

\* the events of SlaveTransmitByte
SlaveTransmitEvents(buf, ptr, wild) ==
  << Ev("wrData", ptr, SlaveLoad(buf, ptr, wild)),
     IF Wrap8(ptr + 1) < nbByteToTransmit THEN REQUEST_SEND_WITH_ACK
                                          ELSE REQUEST_SEND_WITHOUT_ACK >>

\* case ST_START_TRANSMISSION_RECEIVED_A8, ST_ARBITRATION_LOST_ACK_RETURN_B0
IsrSlaveAddressedRead(s, wild) ==
  /\ s \in { ST_START_TRANSMISSION_RECEIVED_A8, ST_ARBITRATION_LOST_ACK_RETURN_B0 }
  /\ IF slaveTransmitCallBack = "NULL"
       THEN Restart
       ELSE /\ typeOfCommunication' = "SLAVE_SEND"
            /\ driverState' = "I2C_SLAVE_TRANSMIT"
            /\ slaveTransmitBuffer' = slaveTransmitCallBack
            /\ SlaveTransmitByte(slaveTransmitCallBack, 0, wild)
            /\ Begin(s, << Ev("provide", 0, 0) >>
                          \o SlaveTransmitEvents(slaveTransmitCallBack, 0, wild))
            /\ corrupt' = FALSE
            /\ UNCHANGED << lastRequestStatus, slaveBuffer, nbByteToTransmit,
                            slaveTransmitCallBack, slaveReceiveCallBack,
                            twiEnabled >>

\* case ST_DATA_TRANSMIT_ACK_RECEIVED_B8
IsrSlaveTransmitData(s, wild) ==
  /\ s = ST_DATA_TRANSMIT_ACK_RECEIVED_B8
  /\ slaveDataPointer < I2C_BUFFER_SIZE + MaxOverrun
  /\ SlaveTransmitByte(slaveTransmitBuffer, slaveDataPointer, wild)
  /\ Run(s, SlaveTransmitEvents(slaveTransmitBuffer, slaveDataPointer, wild))
  /\ UNCHANGED << driverState, typeOfCommunication, lastRequestStatus, slaveBuffer,
                  slaveTransmitBuffer, nbByteToTransmit, slaveTransmitCallBack,
                  slaveReceiveCallBack, twiEnabled, corrupt >>

\* mutation of IsrSlaveTransmitEnd: the state is left as it was
IsrSlaveTransmitEnd_StateKept(s) ==
  /\ s \in { ST_DATA_TRANSMIT_NO_ACK_RECEIVED_C0,
             ST_LAST_DATA_TRANSMIT_ACK_RECEIVED_C8 }
  /\ Run(s, << REQUEST_SEND_WITH_ACK >>)
  /\ twi' = "idle"
  /\ UNCHANGED << driverState, typeOfCommunication, lastRequestStatus, slv,
                  twiEnabled, corrupt >>

\* case ST_DATA_TRANSMIT_NO_ACK_RECEIVED_C0, ST_LAST_DATA_TRANSMIT_ACK_RECEIVED_C8
IsrSlaveTransmitEnd(s) ==
  /\ s \in { ST_DATA_TRANSMIT_NO_ACK_RECEIVED_C0,
             ST_LAST_DATA_TRANSMIT_ACK_RECEIVED_C8 }
  /\ Run(s, << REQUEST_SEND_WITH_ACK >>)
  /\ driverState' = "I2C_READY"
  /\ twi' = "idle"
  /\ UNCHANGED << typeOfCommunication, lastRequestStatus, slv, twiEnabled,
                  corrupt >>

\* the registrations the transaction in flight was triggered with, once the
\* handler has run with status s: the receive handler read when the slave is
\* addressed to receive, the transmit provider and its length read when it
\* is addressed to transmit; none once the transaction has ended
InForceAfter(s) ==
  IF s \in { SR_START_TRANSMISSION_RECEIVED_60,
             SR_ARBITRATION_LOST_ACK_RETURN_68,
             SR_GENERAL_ADDRESS_RECEIVED_ACK_RETURN_70,
             SR_ARBITRATION_LOST_ADDRESS_RECEIVED_ACK_RETURN_78 }
    THEN [handler |-> slaveReceiveCallBack, provider |-> "NULL", length |-> 0]
  ELSE IF s \in { ST_START_TRANSMISSION_RECEIVED_A8,
                   ST_ARBITRATION_LOST_ACK_RETURN_B0 }
    THEN [handler |-> "NULL", provider |-> slaveTransmitCallBack,
          length |-> IF slaveTransmitCallBack = "NULL" THEN 0
                                                      ELSE nbByteToTransmit]
  ELSE IF s \in { SR_STOP_RECEIVED, ST_DATA_TRANSMIT_NO_ACK_RECEIVED_C0,
                   ST_LAST_DATA_TRANSMIT_ACK_RECEIVED_C8, COMMON_BUS_EEOR_00 }
    THEN NoneInForce
  ELSE inForce

\* the switch of the slave build
IsrSlave(s) ==
  /\ mode = "SLAVE"
  /\ s \in SlaveStatus
  /\ Raised(s)
  /\ Entered(s)
  /\ \/ IsrSlaveAddressedWrite(s)
     \/ \E rx \in Received, victim \in {"none", "length"} :
           IsrSlaveData(s, rx, victim)
     \/ \E rx \in Received, victim \in {"none", "length"} :
           IsrSlaveDataNack(s, rx, victim)
     \/ \E intact \in BOOLEAN : IsrSlaveStop(s, intact)
     \/ \E wild \in Bytes : IsrSlaveAddressedRead(s, wild)
     \/ \E wild \in Bytes : IsrSlaveTransmitData(s, wild)
     \/ IsrSlaveTransmitEnd(s)
     \/ IsrNoInfo(s) /\ UNCHANGED twiEnabled
     \/ IsrBusError(s) /\ UNCHANGED twiEnabled
  /\ UNCHANGED << mode, i2cAddress, i2cBuffer, masterReceivedBuffer, dataPointer,
                  nbDataToSend, userBuf, req, pc >>
  /\ inForce' = InForceAfter(s)

----------------------------------------------------------------------------
(* The program *)

\* ISR(TWI_vect)
ISR ==
  \/ \E s \in MasterStatus : IsrMaster(s)
  \/ \E s \in SlaveStatus : IsrSlave(s)

Next ==
  \/ Initialisation
  \/ Disable
  \/ \E a \in Addresses, d \in Buffers, n \in 0 .. MaxLen : SendTo(a, d, n)
  \/ \E a \in Addresses, n \in 0 .. MaxLen : ReadFrom(a, n)
  \/ \E fn \in Handlers : SetSlaveReceivedCallback(fn)
  \/ \E fn \in Providers, n \in 0 .. MaxLen : SetSlaveTransmitCallback(fn, n)
  \/ ISR

Spec == Init /\ [][Next]_vars

SpecStray == InitStray /\ [][Next]_vars

\* Every command the handler writes to TWCR keeps TWIE set and clears TWINT,
\* and the foreground runs with interrupts enabled: while the controller is
\* enabled and has a status to report, the handler is run
SpecFair == Spec /\ WF_vars(ISR)

\* the controller may report the no-information status in any phase, and no
\* other code out of phase
InStepOrNoInfo(s) == s \in LegalStatus \/ s = COMMON_NO_INFO_F8

NextNoInfo ==
  \/ Initialisation
  \/ Disable
  \/ \E a \in Addresses, d \in Buffers, n \in 0 .. MaxLen : SendTo(a, d, n)
  \/ \E a \in Addresses, n \in 0 .. MaxLen : ReadFrom(a, n)
  \/ \E fn \in Handlers : SetSlaveReceivedCallback(fn)
  \/ \E fn \in Providers, n \in 0 .. MaxLen : SetSlaveTransmitCallback(fn, n)
  \/ \E s \in MasterStatus : InStepOrNoInfo(s) /\ IsrMaster(s)
  \/ \E s \in SlaveStatus : InStepOrNoInfo(s) /\ IsrSlave(s)

SpecNoInfo == InitStray /\ [][NextNoInfo]_vars

\* the master build with sendTo and readFrom executed statement by statement;
\* the foreground sends to address 0x50 and reads from address 0x7F
InitMaster == Init /\ mode = "MASTER"

NextInterruptible ==
  \/ Initialisation
  \/ Disable
  \/ \E d \in { x \in Buffers : x[0] = 170 }, n \in 0 .. MaxLen :
        SendToCall(80, d, n)
  \/ SendToStep
  \/ \E n \in 0 .. MaxLen : ReadFromCall(127, n)
  \/ ReadFromStep
  \/ \E s \in MasterStatus : IsrMaster(s)

SpecInterruptible == InitMaster /\ [][NextInterruptible]_vars

----------------------------------------------------------------------------
(* Reading the record of a transaction *)

\* the places of the events named op
At(op) == { k \in 1 .. Len(trace) : trace[k].op = op }

\* the events named op, in order
Events(op) == SelectSeq(trace, LAMBDA e : e.op = op)

\* the status codes the handler has been run with, in order
Statuses == [k \in 1 .. Len(Events("irq")) |-> Events("irq")[k].v]

\* the place of the interrupt that event k belongs to (0: before any interrupt)
RunOf(k) ==
  LET I == { j \in At("irq") : j <= k }
  IN  IF I = {} THEN 0 ELSE CHOOSE j \in I : \A i \in I : i <= j

\* the status code of the last run of the handler (-1: none yet)
LastStatus ==
  IF At("irq") = {} THEN -1 ELSE trace[RunOf(Len(trace))].v

\* the events of the last run of the handler
LastRun ==
  IF At("irq") = {} THEN << >>
  ELSE SubSeq(trace, RunOf(Len(trace)) + 1, Len(trace))

\* how many events of the last run are named op
InLastRun(op) == Len(SelectSeq(LastRun, LAMBDA e : e.op = op))

\* the record is that of a master transaction on a controller in step
MasterTransaction(fn) ==
  /\ mode = "MASTER"
  /\ req.fn = fn
  /\ trace # << >>
  /\ trace[1].op = "start"
  /\ ~strayed

\* a master-send whose address and data bytes have all been acknowledged so far
SendAcked ==
  /\ MasterTransaction("sendTo")
  /\ \A k \in 1 .. Len(Statuses) :
       Statuses[k] \in { MASTER_START_TRANSMISSION_DONE_08,
                         MASTER_REPEATED_START_TRANSMISSION_DONE_10,
                         MS_STARTBIT_TRANSMITTED_AND_ACK_RECEIVED_18,
                         MS_DATA_TRANSMITTED_ACK_RECEIVED_28 }

\* a master-receive whose address has been acknowledged and whose peer supplies
\* the bytes
RecvAcked ==
  /\ MasterTransaction("readFrom")
  /\ \A k \in 1 .. Len(Statuses) :
       Statuses[k] \in { MASTER_START_TRANSMISSION_DONE_08,
                         MASTER_REPEATED_START_TRANSMISSION_DONE_10,
                         MR_STARTBIT_TRANSMITED_AND_ACK_RECEIVED_40,
                         MR_DATA_RECEIVED_ACK_RETURN_50,
                         MR_DATA_RECEIVED_NO_ACK_RETURN_58 }

\* the transaction has ended with a stop condition and the driver is ready
Stopped ==
  /\ At("stop") # {}
  /\ driverState = "I2C_READY"

----------------------------------------------------------------------------
(* C1 *)

\* C1: in a master-send of length n whose address and data bytes are all
\* acknowledged, the data register is written with buffer[0], buffer[1], ...
\* in that order, each after the address write, never more than n times; the
\* stop condition comes only once n bytes are written and the n-th is
\* acknowledged, it is the last event, and by then exactly n bytes are written
C1_SendWritesExactlyLength ==
  SendAcked =>
    LET W == Events("wrData")
        n == req.length
    IN  /\ Len(W) <= n
        /\ \A k \in 1 .. Len(W) : W[k].i = k - 1 /\ W[k].v = userBuf[k - 1]
        /\ \A k \in At("wrData") : \E a \in At("wrAddr") : a < k
        /\ At("stop") # {} =>
             /\ Len(W) = n
             /\ At("stop") = {Len(trace)}
             /\ LastStatus = IF n = 0
                               THEN MS_STARTBIT_TRANSMITTED_AND_ACK_RECEIVED_18
                               ELSE MS_DATA_TRANSMITTED_ACK_RECEIVED_28
             /\ Len(SelectSeq(Statuses,
                    LAMBDA c : c = MS_DATA_TRANSMITTED_ACK_RECEIVED_28)) = n

\* a completed, fully acknowledged master-send of the largest length
C1_Witness ==
  /\ SendAcked
  /\ Stopped
  /\ req.length = MaxLen
  /\ Len(Events("wrData")) = MaxLen

----------------------------------------------------------------------------
(* C2 *)

\* the places where the receive path asks the controller for the next byte
ByteRequests ==
  { k \in At("contAck") \cup At("contNack") :
      RunOf(k) # 0 /\ trace[RunOf(k)].v \in
        { MR_STARTBIT_TRANSMITED_AND_ACK_RECEIVED_40, MR_DATA_RECEIVED_ACK_RETURN_50 } }

\* C2: a completed master-receive of length n from a peer that acknowledges
\* the address and supplies the bytes has asked for n - 1 bytes with
\* acknowledge and for exactly one, the last, without; nothing is asked for
\* after that one
C2_AckAllButLast ==
  (RecvAcked /\ Stopped) =>
    /\ Cardinality(ByteRequests \cap At("contAck")) = req.length - 1
    /\ Cardinality(ByteRequests \cap At("contNack")) = 1
    /\ \A k \in ByteRequests \cap At("contNack") : \A j \in ByteRequests : j <= k

----------------------------------------------------------------------------
(* C3 *)

\* the record is that of a slave-receive transaction on a controller in step
SlaveReceive ==
  /\ mode = "SLAVE"
  /\ trace # << >>
  /\ trace[1].op = "irq"
  /\ trace[1].v \in { SR_START_TRANSMISSION_RECEIVED_60,
                     SR_ARBITRATION_LOST_ACK_RETURN_68,
                     SR_GENERAL_ADDRESS_RECEIVED_ACK_RETURN_70,
                     SR_ARBITRATION_LOST_ADDRESS_RECEIVED_ACK_RETURN_78 }
  /\ ~strayed

\* C3: a slave-receive transaction never stores at an index at or beyond the
\* capacity of the receive buffer, acknowledges no byte once the capacity is
\* reached, and hands the receive handler a length of at most the capacity
\* (the capacity itself after capacity + 3 bytes)
C3_OverlongMessageIsCut ==
  SlaveReceive =>
    /\ \A k \in At("store") : trace[k].i < I2C_BUFFER_SIZE
    /\ \A k \in At("contAck") :
         Cardinality({ j \in At("store") : j < k }) < I2C_BUFFER_SIZE
    /\ \A k \in At("rxCall") :
         trace[k].i = IF Len(Events("store")) <= I2C_BUFFER_SIZE
                        THEN Len(Events("store")) ELSE I2C_BUFFER_SIZE

----------------------------------------------------------------------------
(* C4 *)

\* C4: when the last run of the handler was for a not-acknowledged status of
\* the master-send path, or for a bus error in either build, the driver is
\* ready, that run issued exactly one stop condition, and the status of the
\* request is I2C_MISSING_ACK, respectively I2C_BUS_ERROR
C4_ErrorStopsOnce ==
  /\ (mode = "MASTER" /\ LastStatus \in
        { MS_STARTBIT_TRANSMITTED_AND_NO_ACK_RECEIVED_20,
          MS_DATA_TRANSMITTED_NO_ACK_RECEIVED_30 }) =>
       /\ driverState = "I2C_READY"
       /\ InLastRun("stop") = 1
       /\ lastRequestStatus = "I2C_MISSING_ACK"
  /\ LastStatus = COMMON_BUS_EEOR_00 =>
       /\ driverState = "I2C_READY"
       /\ InLastRun("stop") = 1
       /\ lastRequestStatus = "I2C_BUS_ERROR"

\* a data byte of a master-send has just been refused
C4_Witness ==
  /\ mode = "MASTER"
  /\ LastStatus = MS_DATA_TRANSMITTED_NO_ACK_RECEIVED_30
  /\ req.fn = "sendTo"
  /\ Len(Events("wrData")) >= 1
  /\ lastRequestStatus = "I2C_MISSING_ACK"

----------------------------------------------------------------------------
(* C5 *)

\* C5: when the last run of the handler was for the arbitration-lost status,
\* the driver is ready, the status of the request is I2C_LOST_ARBITRATION, and
\* that run released the bus without a stop condition
C5_ArbitrationLostReleases ==
  (mode = "MASTER" /\ LastStatus = MASTER_ARBITRATION_LOST_38) =>
    /\ driverState = "I2C_READY"
    /\ lastRequestStatus = "I2C_LOST_ARBITRATION"
    /\ InLastRun("stop") = 0
    /\ InLastRun("release") = 1

\* arbitration has just been lost on a data byte of a master-send
C5_Witness ==
  /\ mode = "MASTER"
  /\ LastStatus = MASTER_ARBITRATION_LOST_38
  /\ req.fn = "sendTo"
  /\ Len(Events("wrData")) >= 1
  /\ driverState = "I2C_READY"

----------------------------------------------------------------------------
(* C6 *)

\* C6: a call of sendTo or readFrom made while the driver is not ready leaves
\* the state, the kind of communication, the address, the buffers, the cursor,
\* the length and the status of the request as they are, issues no start
\* condition and leaves the transaction in flight with its parameters
C6_BusyCallChangesNothing ==
  [][ (lastCall' \in {"sendTo", "readFrom"} /\ driverState # "I2C_READY") =>
        UNCHANGED << ctx, userBuf, twi, twiEnabled, req, trace >> ]_vars

\* sendTo has just been called in the middle of a master-receive
C6_Witness ==
  /\ lastCall = "sendTo"
  /\ req.fn = "readFrom"
  /\ driverState = "I2C_MASTER_TRANSMIT"
  /\ typeOfCommunication = "MASTER_RECEIVED"
  /\ Len(trace) > 1

----------------------------------------------------------------------------
(* C7 *)

\* the places of the events of the data phase
DataPhase ==
  At("wrData") \cup At("store") \cup
  { k \in At("contAck") \cup At("contNack") :
      RunOf(k) # 0 /\ trace[RunOf(k)].v \notin
        { MASTER_START_TRANSMISSION_DONE_08,
          MASTER_REPEATED_START_TRANSMISSION_DONE_10 } }

\* C7: in a master transaction the start condition is the first event and the
\* only one; the address byte is written once, in answer to the start (or
\* repeated start) status, and is 2 * address for sendTo and 2 * address + 1
\* for readFrom; the data phase follows the address write; a stop condition
\* ends the transaction, and unless a bus error forced it the address has
\* been written by then
C7_StartAddressDataStop ==
  (mode = "MASTER" /\ trace # << >> /\ trace[1].op = "start" /\ ~strayed) =>
    /\ At("start") = {1}
    /\ \A k \in At("wrAddr") :
         /\ k = 3
         /\ trace[2].op = "irq"
         /\ trace[2].v \in { MASTER_START_TRANSMISSION_DONE_08,
                            MASTER_REPEATED_START_TRANSMISSION_DONE_10 }
         /\ trace[k].v = IF req.fn = "sendTo" THEN req.address * 2
                                              ELSE (req.address * 2) + 1
    /\ \A k \in DataPhase : 3 \in At("wrAddr") /\ k > 3
    /\ \A k \in At("stop") : k = Len(trace)
    /\ (At("stop") # {} /\ LastStatus # COMMON_BUS_EEOR_00) => At("wrAddr") = {3}

\* a completed send to address 0x50: the address byte was 0xA0
C7_Witness ==
  /\ SendAcked
  /\ Stopped
  /\ req.address = 80
  /\ Len(trace) >= 3
  /\ trace[3] = Ev("wrAddr", 0, 160)
  /\ Len(Events("wrData")) = req.length
  /\ req.length >= 1

----------------------------------------------------------------------------
(* C8 *)

\* C8: when a master-send whose address and data bytes were all acknowledged
\* has returned the driver to ready, the status of the request is I2C_OK
C8_AcknowledgedSendEndsOk ==
  (SendAcked /\ Stopped) => lastRequestStatus = "I2C_OK"

----------------------------------------------------------------------------
(* C9 *)

\* C9: when a master-receive of length n >= 1 from an acknowledging peer has
\* returned the driver to ready, n stores were made, the k-th at index k - 1,
\* the caller's array holds the received bytes in order, and nothing was
\* stored at or beyond index n
C9_ReceiveFillsBuffer ==
  (RecvAcked /\ Stopped /\ req.length >= 1) =>
    LET S == Events("store")
        n == req.length
    IN  /\ Len(S) = n
        /\ \A k \in 1 .. Len(S) : S[k].i = k - 1
        /\ \A k \in 1 .. n : userBuf[k - 1] = S[k].v
        /\ \A i \in n .. MaxLen - 1 : userBuf[i] = 0
        /\ ~corrupt

\* a completed receive of the largest length whose first byte was 0xBB
C9_Witness ==
  /\ RecvAcked
  /\ Stopped
  /\ req.length = MaxLen
  /\ Len(Events("store")) = MaxLen
  /\ userBuf[0] = 187

----------------------------------------------------------------------------
(* C10 *)

\* C10: in a slave-receive transaction of n <= capacity data bytes the cursor
\* is zero after the addressing; the receive handler is called only on the
\* stop, once, with the buffer that holds the n bytes in arrival order and
\* with the count n, and the driver is ready afterwards
C10_HandlerGetsMessage ==
  (SlaveReceive /\ Len(Events("store")) <= I2C_BUFFER_SIZE) =>
    LET S == Events("store")
    IN  /\ Len(trace) = 2 => slaveDataPointer = 0
        /\ \A k \in At("rxCall") :
             /\ trace[RunOf(k)].v = SR_STOP_RECEIVED
             /\ At("rxCall") = {k}
             /\ trace[k].i = Len(S)
             /\ trace[k].v = 1
             /\ \A j \in 1 .. Len(S) : slaveBuffer[j - 1] = S[j].v
             /\ driverState = "I2C_READY"
        /\ LastStatus = SR_STOP_RECEIVED => At("rxCall") # {}

----------------------------------------------------------------------------
(* C11 *)

\* this step is a run of the interrupt handler of the master build
IsrRan == Len(trace') > Len(trace) /\ trace'[Len(trace) + 1].op = "irq"

\* C11: the interrupt handler never runs while the foreground is between the
\* test of the state and the start condition of sendTo or readFrom
C11_StartSequenceIsAtomic ==
  [][ IsrRan => pc.fn = "none" ]_vars

----------------------------------------------------------------------------
(* C12 *)

\* the last run of the handler ended a master transaction: it issued the stop
\* condition (completion, missing acknowledge, bus error) or released the bus
\* (arbitration lost)
TerminalRun ==
  /\ mode = "MASTER"
  /\ InLastRun("stop") + InLastRun("release") >= 1

\* this step is a call of fn that populates the context from its arguments
\* and issues the start condition
AcceptedCall(fn) ==
  /\ req'.fn = fn
  /\ trace' = << Ev("start", 0, 0) >>
  /\ twi' \in {"start", "restart"}
  /\ driverState' = "I2C_MASTER_TRANSMIT"
  /\ i2cAddress' = IF fn = "sendTo" THEN req'.address * 2
                                     ELSE (req'.address * 2) + 1
  /\ i2cBuffer' = "userBuf"
  /\ fn = "readFrom" => masterReceivedBuffer' = "userBuf"
  /\ nbDataToSend' = req'.length
  /\ dataPointer' = 0

\* C12: once a run of the handler has ended a master transaction, by
\* completion, missing acknowledge, lost arbitration or bus error, the driver
\* is ready, and a call of sendTo or readFrom made then is accepted: it
\* populates the context with its address, buffer and length and cursor 0 and
\* issues a start condition
C12_TerminalEventsAreRecoverable ==
  /\ [](TerminalRun => driverState = "I2C_READY")
  /\ [][ (TerminalRun /\ lastCall' \in {"sendTo", "readFrom"}) =>
           AcceptedCall(lastCall') ]_vars

\* readFrom has just been accepted after a transaction that lost arbitration
C12_Witness ==
  /\ lastRequestStatus = "I2C_LOST_ARBITRATION"
  /\ lastCall = "readFrom"
  /\ req.fn = "readFrom"
  /\ req.length = MaxLen
  /\ trace = << Ev("start", 0, 0) >>
  /\ dataPointer = 0
  /\ driverState = "I2C_MASTER_TRANSMIT"

----------------------------------------------------------------------------
(* C13 *)

\* C13: the cursor never exceeds the length: dataPointer <= nbDataToSend in
\* the master build, slaveDataPointer <= I2C_BUFFER_SIZE while the slave
\* receives and slaveDataPointer <= nbByteToTransmit while it transmits, for
\* every length from 0 on; and when a master transaction with an
\* acknowledging peer has completed, the cursor equals the length
C13_CursorWithinLength ==
  /\ mode = "MASTER" => dataPointer <= nbDataToSend
  /\ (mode = "SLAVE" /\ driverState = "I2C_SLAVE_RECEIVE") =>
       slaveDataPointer <= I2C_BUFFER_SIZE
  /\ (mode = "SLAVE" /\ driverState = "I2C_SLAVE_TRANSMIT") =>
       slaveDataPointer <= nbByteToTransmit
  /\ ((SendAcked \/ RecvAcked) /\ Stopped) => dataPointer = nbDataToSend

----------------------------------------------------------------------------
(* C14 *)

\* a transaction is in flight on an enabled controller
InFlight == driverState # "I2C_READY" /\ twiEnabled

\* C14: a transaction in flight on a controller that raises its interrupts
\* returns the driver to ready, whatever its kind (master-send,
\* master-receive, slave-receive, slave-transmit) and however it ends, unless
\* disable() switches the controller off first
C14_TransactionsEnd ==
  InFlight ~> (driverState = "I2C_READY" \/ ~twiEnabled)

\* a slave-transmit of the largest length has just ended
C14_Witness ==
  /\ mode = "SLAVE"
  /\ LastStatus = ST_LAST_DATA_TRANSMIT_ACK_RECEIVED_C8
  /\ Len(Events("wrData")) = MaxLen
  /\ driverState = "I2C_READY"
  /\ twiEnabled

----------------------------------------------------------------------------
(* C15 *)

\* the record is that of a slave-transmit transaction on a controller in step
SlaveTransmit ==
  /\ mode = "SLAVE"
  /\ trace # << >>
  /\ trace[1].op = "irq"
  /\ trace[1].v \in { ST_START_TRANSMISSION_RECEIVED_A8,
                     ST_ARBITRATION_LOST_ACK_RETURN_B0 }
  /\ ~strayed

\* the master has acknowledged every byte so far
MasterAcked ==
  \A k \in 2 .. Len(Statuses) : Statuses[k] = ST_DATA_TRANSMIT_ACK_RECEIVED_B8

\* C15: a slave-transmit transaction calls the transmit provider once, in
\* the run that answers the addressing; while it is in flight with a master
\* that acknowledges each byte and m the length registered when it began, at
\* most m buffer bytes are written to the data register, each but the m-th
\* with acknowledge expected and the m-th without
C15_ProviderOnceAndAtMostLength ==
  SlaveTransmit =>
    /\ Cardinality(At("provide")) = 1
    /\ \A k \in At("provide") : RunOf(k) = 1
    /\ (inForce.provider # "NULL" /\ MasterAcked) =>
         LET m == inForce.length
         IN  /\ Cardinality(At("wrData")) <= m
             /\ \A k \in At("wrData") :
                  /\ k < Len(trace)
                  /\ trace[k + 1] =
                       IF Cardinality({ j \in At("wrData") : j <= k }) < m
                         THEN REQUEST_SEND_WITH_ACK
                         ELSE REQUEST_SEND_WITHOUT_ACK

----------------------------------------------------------------------------
(* C16 *)

\* the status code of the run of the handler that this step is
StatusOfStep == trace'[Len(trace) + 1].v

\* the events that run has recorded
EventsOfStep == SubSeq(trace', Len(trace) + 2, Len(trace'))

\* status s belongs to another kind of transaction than the one in flight:
\* a data code of the send path while the driver is ready or receives, a data
\* code of the receive path while it is ready or sends, and likewise for the
\* slave
OtherKind(s) ==
  \/ /\ mode = "MASTER"
     /\ s \in { MS_STARTBIT_TRANSMITTED_AND_ACK_RECEIVED_18,
                MS_DATA_TRANSMITTED_ACK_RECEIVED_28 }
     /\ driverState = "I2C_READY" \/ typeOfCommunication # "MASTER_SEND"
  \/ /\ mode = "MASTER"
     /\ s \in { MR_DATA_RECEIVED_ACK_RETURN_50, MR_DATA_RECEIVED_NO_ACK_RETURN_58 }
     /\ driverState = "I2C_READY" \/ typeOfCommunication # "MASTER_RECEIVED"
  \/ /\ mode = "SLAVE"
     /\ s \in { SR_DATA_RECEIVED_ACK_RETURN_80, SR_DATA_RECEIVED_NO_ACK_RETURN_88,
                SR_GENERAL_DATA_RECEIVED_ACK_RETURN_90,
                SR_GENERAL_DATA_RECEIVED_NO_ACK_RETURN_98 }
     /\ driverState # "I2C_SLAVE_RECEIVE"
  \/ /\ mode = "SLAVE"
     /\ s = ST_DATA_TRANSMIT_ACK_RECEIVED_B8
     /\ driverState # "I2C_SLAVE_TRANSMIT"

\* C16: a run of the handler for a data status of another kind of transaction
\* than the one in flight writes no buffer byte to the data register, stores
\* nothing and leaves the cursor where it is
C16_DispatchDependsOnRole ==
  [][ (IsrRan /\ OtherKind(StatusOfStep)) =>
        /\ \A k \in 1 .. Len(EventsOfStep) :
             EventsOfStep[k].op \notin {"wrData", "store"}
        /\ UNCHANGED << dataPointer, slaveDataPointer, userBuf, slaveBuffer >>
    ]_vars

----------------------------------------------------------------------------
(* C17 *)

\* C17: a slave transaction uses the registrations it began with.  The
\* handler called on the stop is the receive handler that was registered when
\* the slave was addressed; each further byte of a slave-transmit comes from
\* the buffer of the provider called when it was addressed, and is sent with
\* or without acknowledge expected according to the length registered then
C17_RegistrationWaitsForNextTransaction ==
  [][ IsrRan =>
        /\ (\E k \in 1 .. Len(EventsOfStep) : EventsOfStep[k].op = "rxCall") =>
             slaveReceiveCallBack = inForce.handler
        /\ (/\ StatusOfStep = ST_DATA_TRANSMIT_ACK_RECEIVED_B8
            /\ inForce.provider # "NULL"
            /\ slaveDataPointer < MaxLen) =>
             /\ EventsOfStep[1] =
                  Ev("wrData", slaveDataPointer,
                     ProviderBuffer(inForce.provider)[slaveDataPointer])
             /\ EventsOfStep[2] =
                  IF slaveDataPointer + 1 < inForce.length
                    THEN REQUEST_SEND_WITH_ACK
                    ELSE REQUEST_SEND_WITHOUT_ACK
    ]_vars

----------------------------------------------------------------------------
(* C18 *)

\* C18: the run of the handler for the not-acknowledged address of a
\* master-receive issues one stop condition and nothing else, sets the driver
\* ready, and leaves the status of the request, the cursor and the caller's
\* array as they are
C18_ReceiveAddressNackIsSilent ==
  [][ (IsrRan /\ StatusOfStep = MR_STARTBIT_TRANSMITTED_AND_NO_ACK_RECEIVED_48) =>
        /\ EventsOfStep = << SEND_STOP_CONDITION >>
        /\ driverState' = "I2C_READY"
        /\ UNCHANGED << lastRequestStatus, dataPointer, userBuf, nbDataToSend >>
    ]_vars

\* the address of the first readFrom has just been refused: no error is recorded
C18_Witness ==
  /\ req.fn = "readFrom"
  /\ req.length >= 1
  /\ LastStatus = MR_STARTBIT_TRANSMITTED_AND_NO_ACK_RECEIVED_48
  /\ LastRun = << SEND_STOP_CONDITION >>
  /\ driverState = "I2C_READY"
  /\ lastRequestStatus = "I2C_OK"
  /\ dataPointer = 0

----------------------------------------------------------------------------
(* C19 *)

\* C19: the run of the handler for the no-information status, in any driver
\* state and in either build, sets the driver ready and does nothing else: it
\* commands no bus action and accesses no data register, and the kind of
\* communication, the address, the buffers, the cursor, the length, the
\* status of the request and the slave's statics are as they were
C19_NoInfoOnlySetsReady ==
  [][ (IsrRan /\ StatusOfStep = COMMON_NO_INFO_F8) =>
        /\ EventsOfStep = << >>
        /\ driverState' = "I2C_READY"
        /\ UNCHANGED << typeOfCommunication, lastRequestStatus, i2cAddress,
                        i2cBuffer, masterReceivedBuffer, dataPointer,
                        nbDataToSend, userBuf, slv, twi, twiEnabled >>
    ]_vars

\* the no-information status has just been reported in the middle of the data
\* phase of a master-send
C19_Witness ==
  /\ mode = "MASTER"
  /\ req.fn = "sendTo"
  /\ LastStatus = COMMON_NO_INFO_F8
  /\ LastRun = << >>
  /\ twi = "dataW"
  /\ dataPointer >= 1
  /\ driverState = "I2C_READY"

----------------------------------------------------------------------------
(* C20 *)

\* this step is a call of disable() on an enabled controller.  In the slave
\* build a stop or an addressing with no callback registered restarts the
\* program, which also leaves the controller disabled: the step is told apart
\* only where both callbacks are registered
DisableStep ==
  /\ twiEnabled
  /\ ~twiEnabled'
  /\ \/ mode = "MASTER"
     \/ slaveReceiveCallBack # "NULL" /\ slaveTransmitCallBack # "NULL"

\* C20: disable() called while the driver is not ready leaves the state and
\* the rest of the context as they are; while the controller is disabled and
\* the driver not ready, a call of sendTo or readFrom changes nothing, and the
\* only step that sets the driver ready is initialisation(), which enables
\* the controller and touches nothing else of the context
C20_DisableLeavesDriverBusy ==
  [][ /\ (DisableStep /\ driverState # "I2C_READY") =>
           UNCHANGED << ctx, slv, userBuf, req >>
      /\ (~twiEnabled /\ driverState # "I2C_READY") =>
           /\ lastCall' \in {"sendTo", "readFrom"} =>
                UNCHANGED << ctx, userBuf, twi, twiEnabled, req, trace >>
           /\ driverState' = "I2C_READY" =>
                /\ twiEnabled'
                /\ UNCHANGED << typeOfCommunication, lastRequestStatus, i2cAddress,
                                i2cBuffer, masterReceivedBuffer, dataPointer,
                                nbDataToSend, userBuf, slv, req, trace >>
    ]_vars

\* readFrom has just been dropped: disable() was called in the data phase of
\* a master-send and has left the driver busy
C20_Witness ==
  /\ mode = "MASTER"
  /\ ~twiEnabled
  /\ driverState = "I2C_MASTER_TRANSMIT"
  /\ lastCall = "readFrom"
  /\ req.fn = "sendTo"
  /\ dataPointer >= 1

\* ---------------------------------------------------------------------
\* C21
\* ---------------------------------------------------------------------

\* a master transaction is in flight: accepted and not yet back to ready
MasterInFlight ==
  /\ mode = "MASTER"
  /\ driverState # "I2C_READY"
  /\ req.fn \in {"sendTo", "readFrom"}

\* while a master-send is in flight the state is I2C_MASTER_TRANSMIT
SendInFlightIsTransmit ==
  (MasterInFlight /\ req.fn = "sendTo") => driverState = "I2C_MASTER_TRANSMIT"

\* while a master-receive is in flight typeOfCommunication, not driverState,
\* tells it from a master-send
ReceiveInFlightIsMarkedByType ==
  MasterInFlight =>
    /\ req.fn = "readFrom" <=> typeOfCommunication = "MASTER_RECEIVED"
    /\ req.fn = "sendTo" <=> typeOfCommunication = "MASTER_SEND"

\* C21: the driver state names the kind of the transaction in flight: from
\* the acceptance of readFrom until the return to ready it is
\* I2C_MASTER_RECEIVE, from the acceptance of sendTo until the return to
\* ready it is I2C_MASTER_TRANSMIT
C21_StateNamesTransactionKind ==
  MasterInFlight =>
    /\ req.fn = "readFrom" => driverState = "I2C_MASTER_RECEIVE"
    /\ req.fn = "sendTo" => driverState = "I2C_MASTER_TRANSMIT"

====
